---------------------------- MODULE Spec2Model ----------------------------
(***************************************************************************)
(* PatchMon agent: the websocket session loop, the compliance scheduler,   *)
(* the two compliance adapters (OpenSCAP, Docker Bench) and result         *)
(* submission, as one state machine.                                       *)
(*                                                                         *)
(* The agent's coroutines share one asyncio event loop.  A coroutine runs  *)
(* from one suspension point (an await that really suspends) to the next   *)
(* without interleaving; subprocess.run is a blocking call, so while one   *)
(* coroutine sits in it no other coroutine of the loop runs.  `cur` names  *)
(* the coroutine that occupies the loop's thread.  The environment (the    *)
(* server, the host's tools, the collector) moves at any time.             *)
(***************************************************************************)
EXTENDS Integers, Sequences, FiniteSets, TLC

(***************************************************************************)
(* Bounds of the model.                                                    *)
(***************************************************************************)
MaxInbox == 1        \* frames the server may have in flight on one channel
MaxGroupLen == 2     \* digits in the first group of a rule reference
MaxRest == 1         \* dot-separated groups after the first one
MaxLines == 2        \* lines of a docker-bench output
MaxRuleResults == 1  \* rule-result elements of a results document

(***************************************************************************)
(* Program constants.                                                      *)
(***************************************************************************)
BackoffSeconds == 30

None == "None"

\* The agent's coroutines.
Procs == {"ws", "sched"}

\* Who calls an adapter: a coroutine of the agent, or the module's convenience
\* function (run_openscap_scan, run_docker_bench_scan), which runs in a
\* process of its own.
Callers == Procs \cup {"cli"}


(***************************************************************************)
(* Strings the parsers look into are sequences of one-character strings.   *)
(***************************************************************************)
Digits == {"0", "1", "2", "3", "4", "5", "6", "7", "8", "9"}

Dot == "."

\* str.split('.') on a character sequence: the list of the pieces.
RECURSIVE Split(_)
Split(s) ==
  IF \A i \in 1..Len(s) : s[i] # Dot
  THEN <<s>>
  ELSE LET i == CHOOSE k \in 1..Len(s) :
                  s[k] = Dot /\ \A j \in 1..(k - 1) : s[j] # Dot
       IN <<SubSeq(s, 1, i - 1)>> \o Split(SubSeq(s, i + 1, Len(s)))

\* The regular expression \d+(?:\.\d+)* matched against the whole of s.
IsDottedNumber(s) ==
  \A i \in 1..Len(Split(s)) :
     /\ Len(Split(s)[i]) > 0
     /\ \A j \in 1..Len(Split(s)[i]) : Split(s)[i][j] \in Digits

(***************************************************************************)
(* Docker Bench adapter: parsing.                                          *)
(***************************************************************************)
\* severity_map of _get_severity: keys are the section strings "1" .. "7".
severity_map(section) ==
  CASE section = <<"1">> -> "high"
    [] section = <<"2">> -> "high"
    [] section = <<"3">> -> "medium"
    [] section = <<"4">> -> "medium"
    [] section = <<"5">> -> "high"
    [] section = <<"6">> -> "medium"
    [] section = <<"7">> -> "low"
    [] OTHER -> "medium"

\* Mutant: the table is looked up by the first character of the reference.
get_severity_by_digit(rule_ref) == severity_map(<<rule_ref[1]>>)

\* _get_severity: the section is the text before the first dot.
get_severity(rule_ref) ==
  LET section == IF \E i \in 1..Len(rule_ref) : rule_ref[i] = Dot
                 THEN Split(rule_ref)[1]
                 ELSE rule_ref
  IN severity_map(section)

\* status_map of _parse_output, with its default.
docker_status_map(status_raw) ==
  CASE status_raw = "PASS" -> "pass"
    [] status_raw = "WARN" -> "fail"
    [] status_raw = "INFO" -> "skip"
    [] status_raw = "NOTE" -> "notapplicable"
    [] OTHER -> "skip"

\* A line of output is "[tag] ref - title"; a line of any other shape has
\* tag = "" (it matches neither pattern).
\* section_pattern: ^\[INFO\]\s+(\d+(?:\.\d+)*)\s+-\s+(.+)$
section_match(line) ==
  line.tag = "INFO" /\ IsDottedNumber(line.ref) /\ line.title # ""

\* Mutant: the pattern takes a line with any bracketed tag for a check line.
check_match_any_tag(line) ==
  line.tag # "" /\ IsDottedNumber(line.ref) /\ line.title # ""

\* check_pattern: ^\[(PASS|WARN|INFO|NOTE)\]\s+(\d+(?:\.\d+)*)\s+-\s+(.+)$
check_match(line) ==
  /\ line.tag \in {"PASS", "WARN", "INFO", "NOTE"}
  /\ IsDottedNumber(line.ref)
  /\ line.title # ""

\* One iteration of the loop of _parse_output over acc = [results, section].
parse_line(acc, line) ==
  IF section_match(line) /\ \A i \in 1..Len(line.ref) : line.ref[i] # Dot
  THEN [acc EXCEPT !.current_section = line.ref]
  ELSE IF check_match(line)
  THEN [acc EXCEPT !.results = Append(@,
          [rule_ref |-> line.ref,
           title    |-> line.title,
           status   |-> docker_status_map(line.tag),
           severity |-> get_severity(line.ref),
           section  |-> acc.current_section,
           native   |-> line.tag])]
  ELSE acc

RECURSIVE parse_lines(_, _)
parse_lines(acc, lines) ==
  IF lines = <<>> THEN acc
  ELSE parse_lines(parse_line(acc, Head(lines)), Tail(lines))

\* DockerBenchScanner._parse_output
parse_output(output) ==
  parse_lines([results |-> <<>>, current_section |-> <<>>], output).results

(***************************************************************************)
(* OpenSCAP adapter: parsing.                                              *)
(*                                                                         *)
(* A results document is                                                   *)
(*   [exists, wellformed : BOOLEAN,                                        *)
(*    rules        : sequence of [id, severity, title]   (Rule elements;   *)
(*                   severity / title = None when absent),                 *)
(*    rule_results : sequence of [idref, ns, text]       (rule-result      *)
(*                   elements; ns is the namespace of the nested result    *)
(*                   element, "none" when there is no result element;      *)
(*                   text = None for an empty element)]                    *)
(***************************************************************************)
\* str.lower() on the strings the model draws.
Lower(s) ==
  CASE s = "PASS" -> "pass"
    [] s = "Fail" -> "fail"
    [] s = "High" -> "high"
    [] s = "LOW"  -> "low"
    [] OTHER -> s

\* status_map of _parse_results_xml, with its default.
oscap_status_map(status_raw) ==
  CASE status_raw = "pass" -> "pass"
    [] status_raw = "fail" -> "fail"
    [] status_raw = "error" -> "error"
    [] status_raw = "unknown" -> "skip"
    [] status_raw = "notapplicable" -> "notapplicable"
    [] status_raw = "notchecked" -> "skip"
    [] status_raw = "notselected" -> "skip"
    [] status_raw = "informational" -> "skip"
    [] status_raw = "fixed" -> "pass"
    [] OTHER -> "skip"

\* The Rule elements of the document whose id is rule_id, in document order.
rules_with_id(doc, rule_id) ==
  SelectSeq(doc.rules, LAMBDA r : r.id = rule_id)

\* _get_rule_title: the first matching Rule decides; None when it has no
\* title element (or the title element is empty) and when no Rule matches.
get_rule_title(doc, rule_id) ==
  IF rules_with_id(doc, rule_id) = <<>> THEN None
  ELSE rules_with_id(doc, rule_id)[1].title

\* _get_rule_severity: the first matching Rule's severity attribute,
\* lower-cased, 'medium' when the attribute is absent or no Rule matches.
get_rule_severity(doc, rule_id) ==
  IF rules_with_id(doc, rule_id) = <<>> THEN "medium"
  ELSE LET severity == rules_with_id(doc, rule_id)[1].severity
       IN Lower(IF severity = None THEN "medium" ELSE severity)

\* The native status of one rule-result: the nested result element is looked
\* up in the 1.2 namespace, then in the 1.1 namespace.
status_raw_of(rr) ==
  IF rr.ns \in {"1.2", "1.1"} THEN Lower(rr.text) ELSE "unknown"

\* result_elem.text.lower() raises AttributeError when the element is empty.
raises_on(rr) == rr.ns \in {"1.2", "1.1"} /\ rr.text = None

oscap_finding(doc, rr) ==
  [rule_ref |-> rr.idref,
   title    |-> IF get_rule_title(doc, rr.idref) = None
                THEN rr.idref ELSE get_rule_title(doc, rr.idref),
   status   |-> oscap_status_map(status_raw_of(rr)),
   severity |-> get_rule_severity(doc, rr.idref),
   section  |-> <<>>,
   native   |-> status_raw_of(rr)]

\* Mutant: ParseError is not caught inside.
parse_results_xml_uncaught(doc) ==
  IF ~doc.exists
  THEN [raised |-> FALSE, results |-> <<>>]
  ELSE IF ~doc.wellformed \/ \E i \in 1..Len(doc.rule_results) : raises_on(doc.rule_results[i])
  THEN [raised |-> TRUE, results |-> <<>>]
  ELSE [raised |-> FALSE,
        results |-> [i \in 1..Len(doc.rule_results) |->
                       oscap_finding(doc, doc.rule_results[i])]]

\* OpenSCAPScanner._parse_results_xml: [raised, results].  A missing file and
\* a document that is not well-formed give no findings (ParseError is caught
\* inside); any other exception leaves the function.
parse_results_xml(doc) ==
  IF ~doc.exists \/ ~doc.wellformed
  THEN [raised |-> FALSE, results |-> <<>>]
  ELSE IF \E i \in 1..Len(doc.rule_results) : raises_on(doc.rule_results[i])
  THEN [raised |-> TRUE, results |-> <<>>]
  ELSE [raised |-> FALSE,
        results |-> [i \in 1..Len(doc.rule_results) |->
                       oscap_finding(doc, doc.rule_results[i])]]

(***************************************************************************)
(* Inbound frames.  A TEXT frame carries one of these texts.               *)
(***************************************************************************)
PingText        == "{\"type\":\"ping\"}"
ScanAllText     == "{\"type\":\"compliance_scan\",\"profile_type\":\"all\"}"
ScanOpenscapText == "{\"type\":\"compliance_scan\",\"profile_type\":\"openscap\"}"
ScanDockerText  == "{\"type\":\"compliance_scan\",\"profile_type\":\"docker-bench\"}"
ScanDefaultText == "{\"type\":\"compliance_scan\"}"
ScanLevel9Text  == "{\"type\":\"compliance_scan\",\"profile_type\":\"openscap\",\"profile_name\":\"level9_server\"}"
ScanLynisText   == "{\"type\":\"compliance_scan\",\"profile_type\":\"lynis\"}"
UpdateText      == "{\"type\":\"update\"}"
NoTypeText      == "{}"
NotJsonText     == "not json"
ArrayText       == "[1]"

Texts ==
  {PingText, ScanAllText, ScanOpenscapText, ScanDockerText, ScanDefaultText,
   ScanLevel9Text, ScanLynisText, UpdateText, NoTypeText, NotJsonText,
   ArrayText}

\* json.loads on the texts above: [ok, isdict, obj]; ok = FALSE stands for
\* JSONDecodeError, obj is the decoded object as a function from its keys.
json_loads(text) ==
  CASE text = PingText ->
         [ok |-> TRUE, isdict |-> TRUE, obj |-> [type |-> "ping"]]
    [] text = ScanAllText ->
         [ok |-> TRUE, isdict |-> TRUE,
          obj |-> [type |-> "compliance_scan", profile_type |-> "all"]]
    [] text = ScanOpenscapText ->
         [ok |-> TRUE, isdict |-> TRUE,
          obj |-> [type |-> "compliance_scan", profile_type |-> "openscap"]]
    [] text = ScanDockerText ->
         [ok |-> TRUE, isdict |-> TRUE,
          obj |-> [type |-> "compliance_scan", profile_type |-> "docker-bench"]]
    [] text = ScanDefaultText ->
         [ok |-> TRUE, isdict |-> TRUE, obj |-> [type |-> "compliance_scan"]]
    [] text = ScanLevel9Text ->
         [ok |-> TRUE, isdict |-> TRUE,
          obj |-> [type |-> "compliance_scan", profile_type |-> "openscap",
                   profile_name |-> "level9_server"]]
    [] text = ScanLynisText ->
         [ok |-> TRUE, isdict |-> TRUE,
          obj |-> [type |-> "compliance_scan", profile_type |-> "lynis"]]
    [] text = UpdateText ->
         [ok |-> TRUE, isdict |-> TRUE, obj |-> [type |-> "update"]]
    [] text = NoTypeText ->
         [ok |-> TRUE, isdict |-> TRUE, obj |-> <<>>]
    [] text = ArrayText ->
         [ok |-> TRUE, isdict |-> FALSE, obj |-> <<>>]
    [] OTHER ->
         [ok |-> FALSE, isdict |-> FALSE, obj |-> <<>>]

\* dict.get(key, default)
Get(d, key, default) == IF key \in DOMAIN d THEN d[key] ELSE default

TextFrame(text) == [type |-> "TEXT", data |-> text]
ErrorFrame == [type |-> "ERROR", data |-> ""]
\* The server's close: the iteration `async for msg in ws` ends on it.
CloseFrame == [type |-> "CLOSE", data |-> ""]

Frames == {TextFrame(t) : t \in Texts} \cup {ErrorFrame, CloseFrame}

(***************************************************************************)
(* The agent's state.                                                      *)
(***************************************************************************)
VARIABLES
  creds,      \* main: API_ID and API_KEY are both set
  enabled,    \* COMPLIANCE_ENABLED
  startpc,    \* main / start: "main", "exit1", "gather", "stopped"
  running,    \* PatchMonAgent.running
  ws,         \* PatchMonAgent.ws: "none", "open", "closed"
  session,    \* PatchMonAgent.session: "none", "open", "closed"
  pc,         \* where each coroutine stands
  cur,        \* the coroutine occupying the event loop's thread, or "none"
  request,    \* profile_type, profile_name of the call in progress
              \* (handle_message's locals; run_openscap_scan's argument)
  scanner,    \* the scanner object in use, per caller
  result,     \* the local `result` of run_*_compliance, per caller
  posts,      \* POSTs issued so far for result[p]
  inbox,      \* frames sent by the server and not yet received
  invokedAt,  \* Len(inbox) when the running external command was started
  lastDrop,   \* how the channel was last lost: "none", "closed", "error",
              \* "connect_failed"
  waited,     \* seconds known to have passed since then
  fx,         \* what the latest step did that can be seen from outside
  pin,        \* input of the parser under check
  pout        \* its output

agentVars ==
  <<creds, enabled, startpc, running, ws, session, pc, cur, request, scanner,
    result, posts, inbox, invokedAt, lastDrop, waited, fx>>

vars == <<agentVars, pin, pout>>

\*   by          who took the step
\*   handled     the text handle_message was called for
\*   pongs       pong frames sent
\*   probed      adapters constructed (their probes run)
\*   unavailable those among them whose probes reported false
\*   invoked     external scan commands started
\*   report      the report run_scan returned, or the one whose POST ended
\*   posted      POSTs issued
\*   attempt     which attempt of its report the POST that ended was
\*   post_result "accepted" / "failed" for the POST that ended
\*   parsed      what run_scan found of the evaluator's results document:
\*               "missing", "malformed" or "wellformed"
NoFx ==
  [by |-> "env", handled |-> "", pongs |-> 0, probed |-> {},
   unavailable |-> {}, invoked |-> {}, report |-> <<>>, posted |-> 0,
   attempt |-> 0, post_result |-> "none", parsed |-> ""]

Fx(by) == [NoFx EXCEPT !.by = by]

\* Positions at which a coroutine holds the thread: inside synchronous code
\* or inside a blocking subprocess.run.
ToolPcs == {"oscap_eval", "docker_pull", "docker_run"}

BusyPcs == ToolPcs \cup {"run_openscap", "run_docker", "sched_oscap", "sched_docker"}

Holder(newpc, p) == IF newpc[p] \in BusyPcs THEN p ELSE "none"

\* handle_message's locals outside a compliance_scan request.
NoRequest == [profile_type |-> "", profile_name |-> ""]

\* dict access that tolerates the absence of a result.
Status(r) == Get(r, "status", None)

AgentInit ==
  /\ creds \in BOOLEAN
  /\ enabled \in BOOLEAN
  /\ startpc = "main"
  /\ running = FALSE
  /\ ws = "none"
  /\ session = "none"
  /\ pc = [p \in Callers |-> IF p = "cli" THEN "idle" ELSE "new"]
  /\ cur = "none"
  /\ request = NoRequest
  /\ scanner = [p \in Callers |-> <<>>]
  /\ result = [p \in Callers |-> <<>>]
  /\ posts = [p \in Callers |-> 0]
  /\ inbox = <<>>
  /\ invokedAt = 0
  /\ lastDrop = "none"
  /\ waited = 0
  /\ fx = NoFx

Init == AgentInit /\ pin = <<>> /\ pout = <<>>

\* Mutant: the session loop does not test the flag.
WsLoopForever(r) == "connecting"

\* `while self.running:` of websocket_handler, reached without suspension.
WsLoopHead(r) == IF r THEN "connecting" ELSE "returned"

\* `while self.running:` of schedule_compliance_scans.
SchedLoopHead(r) == IF r THEN "sleeping" ELSE "returned"

\* Mutant: the scheduler does not look at COMPLIANCE_ENABLED.
SchedEntryAlways(e) == SchedLoopHead(TRUE)

\* schedule_compliance_scans up to its first await: `if not
\* COMPLIANCE_ENABLED: return`, then the loop.
SchedEntry(e) == IF e THEN SchedLoopHead(TRUE) ELSE "returned"

(***************************************************************************)
(* main and PatchMonAgent.start / stop.                                    *)
(***************************************************************************)
\* main: sys.exit(1) without credentials; otherwise start() sets the flag,
\* opens the session and gathers the two coroutines, each of which runs to
\* its first await.
Main ==
  /\ startpc = "main"
  /\ pc["cli"] = "idle"
  /\ IF ~creds
     THEN /\ startpc' = "exit1"
          /\ UNCHANGED <<running, session, pc>>
     ELSE /\ startpc' = "gather"
          /\ running' = TRUE
          /\ session' = "open"
          /\ pc' = [pc EXCEPT !["ws"] = WsLoopHead(TRUE),
                              !["sched"] = SchedEntry(enabled)]
  /\ fx' = NoFx
  /\ UNCHANGED <<creds, enabled, ws, cur, request, scanner, result, posts,
                 inbox, invokedAt, lastDrop, waited, pin, pout>>

\* PatchMonAgent.stop, called by the agent's owner while start() is gathering.
Stop ==
  /\ startpc = "gather"
  /\ running
  /\ cur = "none"
  /\ pc["ws"] # "raised"
  /\ running' = FALSE
  /\ ws' = IF ws = "open" THEN "closed" ELSE ws
  /\ session' = "closed"
  /\ fx' = Fx("owner")
  /\ UNCHANGED <<creds, enabled, startpc, pc, cur, request, scanner, result,
                 posts, inbox, invokedAt, lastDrop, waited, pin, pout>>

\* The end of start(): gather returns when both coroutines have returned and
\* raises as soon as one of them raised; `finally` calls stop(); after an
\* exception asyncio.run cancels what is left.
StartFinally ==
  /\ startpc = "gather"
  /\ cur = "none"
  /\ \/ pc["ws"] = "raised"
     \/ \A p \in Procs : pc[p] = "returned"
  /\ startpc' = "stopped"
  /\ running' = FALSE
  /\ ws' = IF ws = "open" THEN "closed" ELSE ws
  /\ session' = "closed"
  /\ pc' = [p \in Callers |->
              IF pc[p] \in {"raised", "returned"} \/ p = "cli" THEN pc[p]
              ELSE "cancelled"]
  /\ result' = [p \in Callers |-> <<>>]
  /\ scanner' = [p \in Callers |-> IF p = "cli" THEN scanner[p] ELSE <<>>]
  /\ posts' = [p \in Callers |-> 0]
  /\ fx' = Fx("start")
  /\ UNCHANGED <<creds, enabled, cur, request, inbox, invokedAt, lastDrop,
                 waited, pin, pout>>

(***************************************************************************)
(* The server's side of the channel.                                       *)
(***************************************************************************)
\* The server sends a frame on the open channel; nothing follows a close or
\* an error frame.  Frames arrive whatever the agent is doing.
ServerSend ==
  /\ ws = "open"
  /\ Len(inbox) < MaxInbox
  /\ IF inbox = <<>> THEN TRUE ELSE inbox[Len(inbox)].type = "TEXT"
  /\ \E f \in Frames : inbox' = Append(inbox, f)
  /\ fx' = NoFx
  /\ UNCHANGED <<creds, enabled, startpc, running, ws, session, pc, cur,
                 request, scanner, result, posts, invokedAt, lastDrop, waited,
                 pin, pout>>

(***************************************************************************)
(* PatchMonAgent.websocket_handler                                         *)
(***************************************************************************)
\* ws_connect succeeds: self.ws = ws, and the loop waits for a frame.
WsConnected ==
  /\ pc["ws"] = "connecting"
  /\ cur = "none"
  /\ session = "open"
  /\ ws' = "open"
  /\ inbox' = <<>>
  /\ lastDrop' = "none"
  /\ waited' = 0
  /\ pc' = [pc EXCEPT !["ws"] = "receiving"]
  /\ fx' = Fx("ws")
  /\ UNCHANGED <<creds, enabled, startpc, running, session, cur, request,
                 scanner, result, posts, invokedAt, pin, pout>>

\* ws_connect raises aiohttp.ClientError: logged, then asyncio.sleep(30).
WsConnectFailed ==
  /\ pc["ws"] = "connecting"
  /\ cur = "none"
  /\ pc' = [pc EXCEPT !["ws"] = "backoff"]
  /\ lastDrop' = "connect_failed"
  /\ waited' = 0
  /\ fx' = Fx("ws")
  /\ UNCHANGED <<creds, enabled, startpc, running, ws, session, cur, request,
                 scanner, result, posts, inbox, invokedAt, pin, pout>>

\* asyncio.sleep(30) is over; the loop tests the flag again.
BackoffDone ==
  /\ pc["ws"] = "backoff"
  /\ cur = "none"
  /\ waited' = waited + BackoffSeconds
  /\ pc' = [pc EXCEPT !["ws"] = WsLoopHead(running)]
  /\ fx' = Fx("ws")
  /\ UNCHANGED <<creds, enabled, startpc, running, ws, session, cur, request,
                 scanner, result, posts, inbox, invokedAt, lastDrop, pin, pout>>

\* What the loop does after the `async with` block was left without an
\* exception (the iteration ended, or `break` on an ERROR frame): nothing is
\* awaited, the flag is tested and the next ws_connect is issued.
AfterChannelLost(r) == WsLoopHead(r)

\* The iteration `async for msg in ws` ends: the server closed the channel,
\* or stop() closed it.
RecvClosed ==
  /\ pc["ws"] = "receiving"
  /\ cur = "none"
  /\ \/ ws = "closed"
     \/ ws = "open" /\ inbox # <<>> /\ Head(inbox) = CloseFrame
  /\ ws' = "closed"
  /\ inbox' = <<>>
  /\ lastDrop' = "closed"
  /\ waited' = 0
  /\ pc' = [pc EXCEPT !["ws"] = AfterChannelLost(running)]
  /\ fx' = Fx("ws")
  /\ UNCHANGED <<creds, enabled, startpc, running, session, cur, request,
                 scanner, result, posts, invokedAt, pin, pout>>

\* An ERROR frame: logged, `break`.
RecvError ==
  /\ pc["ws"] = "receiving"
  /\ cur = "none"
  /\ ws = "open" /\ inbox # <<>> /\ Head(inbox) = ErrorFrame
  /\ ws' = "closed"
  /\ inbox' = <<>>
  /\ lastDrop' = "error"
  /\ waited' = 0
  /\ pc' = [pc EXCEPT !["ws"] = AfterChannelLost(running)]
  /\ fx' = Fx("ws")
  /\ UNCHANGED <<creds, enabled, startpc, running, session, cur, request,
                 scanner, result, posts, invokedAt, pin, pout>>

(***************************************************************************)
(* PatchMonAgent.handle_message, called on json.loads(msg.data).           *)
(***************************************************************************)
TextAtHead ==
  /\ pc["ws"] = "receiving"
  /\ cur = "none"
  /\ ws = "open" /\ inbox # <<>> /\ Head(inbox).type = "TEXT"

\* Mutant: a message without a type is taken for a ping.
handle_message_branch_default_ping(data) ==
  LET msg_type == Get(data, "type", "ping")
  IN IF msg_type = "compliance_scan" THEN "scan"
     ELSE IF msg_type = "ping" THEN "ping"
     ELSE "unhandled"

\* The branch handle_message takes on a decoded object.
handle_message_branch(data) ==
  LET msg_type == Get(data, "type", None)
  IN IF msg_type = "compliance_scan" THEN "scan"
     ELSE IF msg_type = "ping" THEN "ping"
     ELSE "unhandled"

\* json.loads raises on the text, or handle_message raises on data.get
\* because the value is no object.  Neither is an aiohttp.ClientError or a
\* CancelledError: the `async with` block is left (closing the channel) and
\* the exception leaves websocket_handler.
RecvBadPayload ==
  /\ TextAtHead
  /\ LET j == json_loads(Head(inbox).data) IN ~j.ok \/ ~j.isdict
  /\ ws' = "closed"
  /\ inbox' = <<>>
  /\ pc' = [pc EXCEPT !["ws"] = "raised"]
  /\ fx' = [Fx("ws") EXCEPT !.handled = Head(inbox).data]
  /\ UNCHANGED <<creds, enabled, startpc, running, session, cur, request,
                 scanner, result, posts, invokedAt, lastDrop, waited, pin, pout>>

\* Where a compliance_scan request goes first.
FirstScanPc(profile_type) ==
  IF profile_type \in {"openscap", "all"} THEN "run_openscap"
  ELSE IF profile_type \in {"docker-bench", "all"} THEN "run_docker"
  ELSE "receiving"

\* msg_type == "compliance_scan"
RecvScanRequest ==
  /\ TextAtHead
  /\ LET j == json_loads(Head(inbox).data) IN
       /\ j.ok /\ j.isdict
       /\ handle_message_branch(j.obj) = "scan"
       /\ LET profile_type == Get(j.obj, "profile_type", "all")
              profile_name == Get(j.obj, "profile_name", "level1_server")
          IN /\ pc' = [pc EXCEPT !["ws"] = FirstScanPc(profile_type)]
             /\ request' = IF FirstScanPc(profile_type) = "receiving"
                           THEN NoRequest
                           ELSE [profile_type |-> profile_type,
                                 profile_name |-> profile_name]
  /\ inbox' = Tail(inbox)
  /\ cur' = Holder(pc', "ws")
  /\ fx' = [Fx("ws") EXCEPT !.handled = Head(inbox).data]
  /\ UNCHANGED <<creds, enabled, startpc, running, ws, session, scanner,
                 result, posts, invokedAt, lastDrop, waited, pin, pout>>

\* Mutant: the ping branch sends nothing.
pong_never(w) == 0

\* The ping branch: one send_json when self.ws is set and not closed.
pong_frames(w) == IF w = "open" THEN 1 ELSE 0

\* msg_type == "ping"
RecvPing ==
  /\ TextAtHead
  /\ LET j == json_loads(Head(inbox).data) IN
       /\ j.ok /\ j.isdict
       /\ handle_message_branch(j.obj) = "ping"
  /\ inbox' = Tail(inbox)
  /\ fx' = [Fx("ws") EXCEPT !.handled = Head(inbox).data,
                        !.pongs = pong_frames(ws)]
  /\ UNCHANGED <<creds, enabled, startpc, running, ws, session, pc, cur,
                 request, scanner, result, posts, invokedAt, lastDrop, waited,
                 pin, pout>>

\* Any other type, or none: logged at debug level.
RecvUnhandled ==
  /\ TextAtHead
  /\ LET j == json_loads(Head(inbox).data) IN
       /\ j.ok /\ j.isdict
       /\ handle_message_branch(j.obj) = "unhandled"
  /\ inbox' = Tail(inbox)
  /\ fx' = [Fx("ws") EXCEPT !.handled = Head(inbox).data]
  /\ UNCHANGED <<creds, enabled, startpc, running, ws, session, pc, cur,
                 request, scanner, result, posts, invokedAt, lastDrop, waited,
                 pin, pout>>

(***************************************************************************)
(* The adapters.                                                           *)
(***************************************************************************)
ContentDir == "/usr/share/xml/scap/ssg/content"

\* OpenSCAPScanner(): what the constructor's probes can find on a host.
\* profiles holds the names get_available_profiles returns there.
OscapScanners ==
  [kind : {"openscap"}, oscap_available : BOOLEAN,
   scap_content_path : {None, ContentDir},
   profiles : {{}, {"level1_server"}}]

\* DockerBenchScanner(): the result of `docker info`.
DockerScanners == [kind : {"docker-bench"}, docker_available : BOOLEAN]

\* What the probes run by the constructor reported.
ProbeOk(s) ==
  IF s.kind = "openscap"
  THEN s.oscap_available /\ s.scap_content_path # None
  ELSE s.docker_available

\* The visible part of constructing scanner s.
Probed(f, s) ==
  [f EXCEPT !.probed = {s.kind},
            !.unavailable = IF ProbeOk(s) THEN {} ELSE {s.kind}]

\* OpenSCAPScanner.is_available
oscap_is_available(s) == s.oscap_available /\ s.scap_content_path # None

\* DockerBenchScanner.is_available
docker_is_available(s) == s.docker_available

ErrorReport(msg) == [status |-> "error", error |-> msg, results |-> <<>>]

CompletedReport(ptype, pname, findings) ==
  [status |-> "completed", profile_name |-> pname, profile_type |-> ptype,
   started_at |-> "utcnow", completed_at |-> "utcnow", results |-> findings,
   raw_output |-> "stdout+stderr"]

\* OpenSCAPScanner.run_scan up to the evaluator's invocation: the error
\* report it returns, or <<>> when it goes on to invoke the evaluator.
oscap_run_scan_entry(s, profile_name) ==
  IF ~oscap_is_available(s)
  THEN ErrorReport("OpenSCAP is not available")
  ELSE IF profile_name \notin s.profiles
  THEN ErrorReport("Profile not available")
  ELSE <<>>

\* Mutant: run_scan does not test docker_available.
docker_run_scan_entry_unguarded(s) == <<>>

\* DockerBenchScanner.run_scan up to the pull: the error report it returns,
\* or <<>> when it goes on to pull the image.
docker_run_scan_entry(s) ==
  IF ~s.docker_available
  THEN ErrorReport("Docker is not available")
  ELSE <<>>

\* Results documents and outputs the tools leave behind in the agent's runs.
RuleResult(idref, ns, text) == [idref |-> idref, ns |-> ns, text |-> text]

Rule(id, severity, title) == [id |-> id, severity |-> severity, title |-> title]

Doc(exists, wellformed, rules, rrs) ==
  [exists |-> exists, wellformed |-> wellformed, rules |-> rules,
   rule_results |-> rrs]

NoDoc == Doc(FALSE, FALSE, <<>>, <<>>)

AgentDocs ==
  {NoDoc,
   Doc(TRUE, FALSE, <<>>, <<>>),
   Doc(TRUE, TRUE, <<Rule("r1", "high", "t1")>>, <<RuleResult("r1", "1.2", "pass")>>),
   Doc(TRUE, TRUE, <<>>, <<RuleResult("r1", "1.2", None)>>),
   Doc(TRUE, TRUE, <<>>, <<RuleResult("r1", "1.2", "fail"),
                           RuleResult("r2", "1.2", None)>>)}

Line(tag, ref, title) == [tag |-> tag, ref |-> ref, title |-> title]

AgentOutputs ==
  {<<>>, <<Line("WARN", <<"1", ".", "1">>, "x")>>}

\* Mutant: when parsing is aborted, the Findings made so far stay in the
\* error report.
oscap_report_partial(outcome, doc, profile_name) ==
  IF outcome = "TimeoutExpired" THEN ErrorReport("OpenSCAP scan timed out")
  ELSE IF outcome = "OSError" THEN ErrorReport("OSError")
  ELSE IF parse_results_xml(doc).raised
  THEN [ErrorReport("AttributeError") EXCEPT !.results =
          LET parsed == SelectSeq(doc.rule_results, LAMBDA rr : ~raises_on(rr))
          IN [i \in 1..Len(parsed) |-> oscap_finding(doc, parsed[i])]]
  ELSE CompletedReport("openscap", <<"CIS", profile_name>>,
                       parse_results_xml(doc).results)

\* The report run_scan makes of the evaluator's end: the process exited and
\* left doc behind, or subprocess.run raised.
oscap_report(outcome, doc, profile_name) ==
  IF outcome = "TimeoutExpired" THEN ErrorReport("OpenSCAP scan timed out")
  ELSE IF outcome = "OSError" THEN ErrorReport("OSError")
  ELSE IF parse_results_xml(doc).raised THEN ErrorReport("AttributeError")
  ELSE CompletedReport("openscap", <<"CIS", profile_name>>,
                       parse_results_xml(doc).results)

\* DockerBenchScanner.run_scan after `docker pull`: subprocess.run returned
\* (the exit status is not looked at) and the benchmark is run next, or it
\* raised and run_scan returns this error report.
docker_pull_report(outcome) ==
  IF outcome = "TimeoutExpired" THEN ErrorReport("Docker Bench scan timed out")
  ELSE IF outcome = "OSError" THEN ErrorReport("OSError")
  ELSE <<>>

\* The report run_scan makes of the end of `docker run`.
docker_report(outcome, output) ==
  IF outcome = "TimeoutExpired" THEN ErrorReport("Docker Bench scan timed out")
  ELSE IF outcome = "OSError" THEN ErrorReport("OSError")
  ELSE CompletedReport("docker-bench", "CIS Docker Benchmark",
                       parse_output(output))

EvalOutcomes == {"exit", "TimeoutExpired", "OSError"}

\* What _parse_results_xml, called after the evaluator exited, finds at the
\* path of the results document.
Parsed(outcome, doc) ==
  IF outcome # "exit" THEN ""
  ELSE IF ~doc.exists THEN "missing"
  ELSE IF ~doc.wellformed THEN "malformed"
  ELSE "wellformed"

PullOutcomes == {"exit0", "exit1", "TimeoutExpired", "OSError"}

(***************************************************************************)
(* How a caller moves through run_*_compliance.                            *)
(***************************************************************************)
\* Mutant: the two tests of handle_message are alternatives, so that 'all'
\* reaches the first one only.
AfterOscapElif(p) ==
  IF p = "sched" THEN "sched_docker"
  ELSE IF request.profile_type = "docker-bench" THEN "run_docker"
  ELSE "receiving"

\* The coroutine's next position after run_openscap_compliance returned.
AfterOscap(p) ==
  IF p = "sched" THEN "sched_docker"
  ELSE IF request.profile_type \in {"docker-bench", "all"} THEN "run_docker"
  ELSE "receiving"

\* The coroutine's next position after run_docker_bench_compliance returned.
AfterDocker(p) ==
  IF p = "sched" THEN SchedLoopHead(running) ELSE "receiving"

\* The profile_name run_scan is called with.
ProfileName(p) == IF p = "sched" THEN "level1_server" ELSE request.profile_name

\* A step of caller p that ends at newpc with nothing kept.
Returns(p, newpc, effects) ==
  /\ pc' = [pc EXCEPT ![p] = newpc]
  /\ cur' = IF p = "cli" THEN cur ELSE Holder(pc', p)
  /\ scanner' = [scanner EXCEPT ![p] = <<>>]
  /\ result' = [result EXCEPT ![p] = <<>>]
  /\ posts' = [posts EXCEPT ![p] = 0]
  /\ request' = IF newpc \in {"receiving", "idle"} THEN NoRequest ELSE request
  /\ invokedAt' = 0
  /\ fx' = effects

\* A step of caller p that starts an external command with scanner s.
Invokes(p, toolpc, s, effects) ==
  /\ pc' = [pc EXCEPT ![p] = toolpc]
  /\ cur' = IF p = "cli" THEN cur ELSE p
  /\ scanner' = [scanner EXCEPT ![p] = s]
  /\ result' = [result EXCEPT ![p] = <<>>]
  /\ posts' = [posts EXCEPT ![p] = 0]
  /\ invokedAt' = Len(inbox)
  /\ fx' = effects

\* submit_compliance_results up to its await: session.post is issued; on a
\* closed session it raises at once and run_*_compliance logs the exception.
Submits(p, submitpc, afterpc, report, f) ==
  IF session = "open"
  THEN /\ pc' = [pc EXCEPT ![p] = submitpc]
       /\ cur' = "none"
       /\ result' = [result EXCEPT ![p] = report]
       /\ posts' = [posts EXCEPT ![p] = posts[p] + 1]
       /\ invokedAt' = 0
       /\ fx' = [f EXCEPT !.posted = 1, !.report = report]
       /\ UNCHANGED <<scanner, request>>
  ELSE Returns(p, afterpc, [f EXCEPT !.report = report])

\* What run_*_compliance does with the report run_scan returned: a completed
\* report is submitted, an error report is logged.
Handles(p, submitpc, afterpc, report, f) ==
  IF report.status = "completed"
  THEN Submits(p, submitpc, afterpc, report, f)
  ELSE Returns(p, afterpc, [f EXCEPT !.report = report])

(***************************************************************************)
(* PatchMonAgent.run_openscap_compliance                                   *)
(***************************************************************************)
\* Construction of the scanner, the availability test, and run_scan up to the
\* evaluator's invocation.
RunOpenscap(p) ==
  /\ pc[p] = "run_openscap"
  /\ cur = p
  /\ \E s \in OscapScanners :
       IF ~oscap_is_available(s)
       THEN Returns(p, AfterOscap(p), Probed(Fx(p), s))
       ELSE LET entry == oscap_run_scan_entry(s, ProfileName(p)) IN
            IF entry # <<>>
            THEN Returns(p, AfterOscap(p),
                         [Probed(Fx(p), s) EXCEPT !.report = entry])
            ELSE /\ Invokes(p, "oscap_eval", s,
                      [Probed(Fx(p), s) EXCEPT !.invoked = {"oscap xccdf eval"}])
                 /\ UNCHANGED request
  /\ UNCHANGED <<creds, enabled, startpc, running, ws, session, inbox,
                 lastDrop, waited, pin, pout>>

\* subprocess.run of `oscap xccdf eval` returns or raises; the rest of
\* run_scan and of run_openscap_compliance follows up to the next await.
OscapEvalDone(p) ==
  /\ pc[p] = "oscap_eval"
  /\ cur = p
  /\ \E outcome \in EvalOutcomes, doc \in AgentDocs :
       /\ outcome # "exit" => doc = NoDoc
       /\ Handles(p, "oscap_submit", AfterOscap(p),
                  oscap_report(outcome, doc, ProfileName(p)),
                  [Fx(p) EXCEPT !.parsed = Parsed(outcome, doc)])
  /\ UNCHANGED <<creds, enabled, startpc, running, ws, session, inbox,
                 lastDrop, waited, pin, pout>>

(***************************************************************************)
(* PatchMonAgent.run_docker_bench_compliance                               *)
(***************************************************************************)
\* Construction of the scanner, the availability test, and run_scan up to the
\* pull of the image.
RunDocker(p) ==
  /\ pc[p] = "run_docker"
  /\ cur = p
  /\ \E s \in DockerScanners :
       IF ~docker_is_available(s)
       THEN Returns(p, AfterDocker(p), Probed(Fx(p), s))
       ELSE LET entry == docker_run_scan_entry(s) IN
            IF entry # <<>>
            THEN Returns(p, AfterDocker(p),
                         [Probed(Fx(p), s) EXCEPT !.report = entry])
            ELSE /\ Invokes(p, "docker_pull", s,
                      [Probed(Fx(p), s) EXCEPT !.invoked = {"docker pull"}])
                 /\ UNCHANGED request
  /\ UNCHANGED <<creds, enabled, startpc, running, ws, session, inbox,
                 lastDrop, waited, pin, pout>>

\* subprocess.run of `docker pull` returns or raises.
DockerPullDone(p) ==
  /\ pc[p] = "docker_pull"
  /\ cur = p
  /\ \E outcome \in PullOutcomes :
       IF docker_pull_report(outcome) = <<>>
       THEN /\ Invokes(p, "docker_run", scanner[p],
                       [Fx(p) EXCEPT !.invoked = {"docker run"}])
            /\ UNCHANGED request
       ELSE Returns(p, AfterDocker(p),
                    [Fx(p) EXCEPT !.report = docker_pull_report(outcome)])
  /\ UNCHANGED <<creds, enabled, startpc, running, ws, session, inbox,
                 lastDrop, waited, pin, pout>>

\* subprocess.run of `docker run` returns or raises; the rest of run_scan and
\* of run_docker_bench_compliance follows up to the next await.
DockerRunDone(p) ==
  /\ pc[p] = "docker_run"
  /\ cur = p
  /\ \E outcome \in EvalOutcomes, output \in AgentOutputs :
       /\ outcome # "exit" => output = <<>>
       /\ Handles(p, "docker_submit", AfterDocker(p),
                  docker_report(outcome, output), Fx(p))
  /\ UNCHANGED <<creds, enabled, startpc, running, ws, session, inbox,
                 lastDrop, waited, pin, pout>>

(***************************************************************************)
(* PatchMonAgent.submit_compliance_results                                 *)
(***************************************************************************)
SubmitPcs == {"oscap_submit", "docker_submit"}

PostOutcomes == {"200", "500", "ClientError"}

\* The visible part of the end of p's POST.
PostEnded(p, outcome) ==
  [Fx(p) EXCEPT !.report = result[p], !.attempt = posts[p],
                !.post_result = IF outcome = "200" THEN "accepted" ELSE "failed"]

\* Mutant: a failed submission is repeated, up to three attempts.
SubmitDoneRetry(p) ==
  /\ pc[p] \in SubmitPcs
  /\ cur = "none"
  /\ \E outcome \in PostOutcomes :
       /\ outcome = "200" => session = "open"
       /\ IF outcome # "200" /\ posts[p] < 3
          THEN /\ posts' = [posts EXCEPT ![p] = posts[p] + 1]
               /\ fx' = [PostEnded(p, outcome) EXCEPT !.posted = 1]
               /\ UNCHANGED <<pc, cur, scanner, result, invokedAt, request>>
          ELSE Returns(p, IF pc[p] = "oscap_submit" THEN AfterOscap(p)
                          ELSE AfterDocker(p),
                       PostEnded(p, outcome))
  /\ UNCHANGED <<creds, enabled, startpc, running, ws, session, inbox,
                 lastDrop, waited, pin, pout>>

\* The POST ends: status 200, another status, or aiohttp.ClientError.  Each is
\* logged and submit returns; run_*_compliance returns after it.
SubmitDone(p) ==
  /\ pc[p] \in SubmitPcs
  /\ cur = "none"
  /\ \E outcome \in PostOutcomes :
       /\ outcome = "200" => session = "open"
       /\ Returns(p, IF pc[p] = "oscap_submit" THEN AfterOscap(p)
                     ELSE AfterDocker(p),
                  PostEnded(p, outcome))
  /\ UNCHANGED <<creds, enabled, startpc, running, ws, session, inbox,
                 lastDrop, waited, pin, pout>>

(***************************************************************************)
(* PatchMonAgent.schedule_compliance_scans                                 *)
(***************************************************************************)
\* asyncio.sleep(COMPLIANCE_SCAN_INTERVAL) is over.
SchedWake ==
  /\ pc["sched"] = "sleeping"
  /\ cur = "none"
  /\ pc' = [pc EXCEPT !["sched"] = "sched_oscap"]
  /\ cur' = "sched"
  /\ fx' = Fx("sched")
  /\ UNCHANGED <<creds, enabled, startpc, running, ws, session, request,
                 scanner, result, posts, inbox, invokedAt, lastDrop, waited,
                 pin, pout>>

\* oscap_scanner = OpenSCAPScanner(); if oscap_scanner.is_available(): ...
SchedProbeOscap ==
  /\ pc["sched"] = "sched_oscap"
  /\ cur = "sched"
  /\ \E s \in OscapScanners :
       /\ pc' = [pc EXCEPT !["sched"] = IF oscap_is_available(s)
                                        THEN "run_openscap" ELSE "sched_docker"]
       /\ fx' = Probed(Fx("sched"), s)
  /\ UNCHANGED <<creds, enabled, startpc, running, ws, session, cur, request,
                 scanner, result, posts, inbox, invokedAt, lastDrop, waited,
                 pin, pout>>

\* docker_scanner = DockerBenchScanner(); if docker_scanner.is_available(): ...
SchedProbeDocker ==
  /\ pc["sched"] = "sched_docker"
  /\ cur = "sched"
  /\ \E s \in DockerScanners :
       /\ pc' = [pc EXCEPT !["sched"] = IF docker_is_available(s)
                                        THEN "run_docker"
                                        ELSE SchedLoopHead(running)]
       /\ fx' = Probed(Fx("sched"), s)
  /\ cur' = Holder(pc', "sched")
  /\ UNCHANGED <<creds, enabled, startpc, running, ws, session, request,
                 scanner, result, posts, inbox, invokedAt, lastDrop, waited,
                 pin, pout>>

(***************************************************************************)
(* The convenience functions run_openscap_scan and run_docker_bench_scan:  *)
(* a scanner is constructed and run_scan is called on it whatever its      *)
(* probes found.  They run in a process of their own, which shares nothing *)
(* with the agent; the model lets them run before the agent is started.    *)
(***************************************************************************)
ProfileNames == {"level1_server", "level9_server"}

\* run_openscap_scan(profile) up to the evaluator's invocation.
RunOpenscapScan ==
  /\ startpc = "main"
  /\ pc["cli"] = "idle"
  /\ \E s \in OscapScanners, profile \in ProfileNames :
       LET entry == oscap_run_scan_entry(s, profile) IN
       IF entry # <<>>
       THEN Returns("cli", "idle", [Probed(Fx("cli"), s) EXCEPT !.report = entry])
       ELSE /\ Invokes("cli", "oscap_eval", s,
                 [Probed(Fx("cli"), s) EXCEPT !.invoked = {"oscap xccdf eval"}])
            /\ request' = [profile_type |-> "openscap", profile_name |-> profile]
  /\ UNCHANGED <<creds, enabled, startpc, running, ws, session, inbox,
                 lastDrop, waited, pin, pout>>

\* The evaluator ends and run_scan returns its report.
OpenscapScanDone ==
  /\ pc["cli"] = "oscap_eval"
  /\ \E outcome \in EvalOutcomes, doc \in AgentDocs :
       /\ outcome # "exit" => doc = NoDoc
       /\ Returns("cli", "idle",
            [Fx("cli") EXCEPT !.report = oscap_report(outcome, doc, ProfileName("cli")),
                              !.parsed = Parsed(outcome, doc)])
  /\ UNCHANGED <<creds, enabled, startpc, running, ws, session, inbox,
                 lastDrop, waited, pin, pout>>

\* run_docker_bench_scan() up to the pull.
RunDockerBenchScan ==
  /\ startpc = "main"
  /\ pc["cli"] = "idle"
  /\ \E s \in DockerScanners :
       LET entry == docker_run_scan_entry(s) IN
       IF entry # <<>>
       THEN Returns("cli", "idle", [Probed(Fx("cli"), s) EXCEPT !.report = entry])
       ELSE /\ Invokes("cli", "docker_pull", s,
                 [Probed(Fx("cli"), s) EXCEPT !.invoked = {"docker pull"}])
            /\ UNCHANGED request
  /\ UNCHANGED <<creds, enabled, startpc, running, ws, session, inbox,
                 lastDrop, waited, pin, pout>>

\* `docker pull` ends.
DockerBenchPullDone ==
  /\ pc["cli"] = "docker_pull"
  /\ \E outcome \in PullOutcomes :
       IF docker_pull_report(outcome) = <<>>
       THEN /\ Invokes("cli", "docker_run", scanner["cli"],
                       [Fx("cli") EXCEPT !.invoked = {"docker run"}])
            /\ UNCHANGED request
       ELSE Returns("cli", "idle",
                    [Fx("cli") EXCEPT !.report = docker_pull_report(outcome)])
  /\ UNCHANGED <<creds, enabled, startpc, running, ws, session, inbox,
                 lastDrop, waited, pin, pout>>

\* `docker run` ends and run_scan returns its report.
DockerBenchScanDone ==
  /\ pc["cli"] = "docker_run"
  /\ \E outcome \in EvalOutcomes, output \in AgentOutputs :
       /\ outcome # "exit" => output = <<>>
       /\ Returns("cli", "idle",
            [Fx("cli") EXCEPT !.report = docker_report(outcome, output)])
  /\ UNCHANGED <<creds, enabled, startpc, running, ws, session, inbox,
                 lastDrop, waited, pin, pout>>

(***************************************************************************)
(* The agent and the convenience functions.                                *)
(***************************************************************************)
Next ==
  \/ Main
  \/ Stop
  \/ StartFinally
  \/ ServerSend
  \/ WsConnected
  \/ WsConnectFailed
  \/ BackoffDone
  \/ RecvClosed
  \/ RecvError
  \/ RecvBadPayload
  \/ RecvScanRequest
  \/ RecvPing
  \/ RecvUnhandled
  \/ \E p \in Procs : RunOpenscap(p)
  \/ \E p \in Procs : OscapEvalDone(p)
  \/ \E p \in Procs : RunDocker(p)
  \/ \E p \in Procs : DockerPullDone(p)
  \/ \E p \in Procs : DockerRunDone(p)
  \/ \E p \in Procs : SubmitDone(p)
  \/ SchedWake
  \/ SchedProbeOscap
  \/ SchedProbeDocker
  \/ RunOpenscapScan
  \/ OpenscapScanDone
  \/ RunDockerBenchScan
  \/ DockerBenchPullDone
  \/ DockerBenchScanDone

Spec == Init /\ [][Next]_vars

\* The event loop runs every coroutine that is ready, timers expire, and each
\* external command and each request ends within its timeout: a step that
\* can be taken is taken at last.
FairSpec == Spec /\ WF_vars(Next)

(***************************************************************************)
(* Properties of the session, the scans and the submission.                *)
(***************************************************************************)
\* A ping that arrived after the running external command was started.
LatePing ==
  \E i \in (invokedAt + 1)..Len(inbox) : inbox[i] = TextFrame(PingText)

\* C1: a scan in progress never keeps the session from answering a ping:
\* when an external tool invocation ends, no ping that arrived on the channel
\* while it ran is still waiting for its pong.
C1_PingAnsweredWhileToolRuns ==
  [][\A p \in Procs : (pc[p] \in ToolPcs /\ pc'[p] # pc[p]) => ~LatePing]_vars

\* C2: after every loss of the channel and after every failed connection
\* attempt, the next connection attempt is issued only once 30 seconds have
\* passed.
C2_ReconnectAfterBackoff ==
  (pc["ws"] = "connecting" /\ lastDrop # "none") => waited >= BackoffSeconds

\* C3 (as claimed): when the first submission of a report fails, the same
\* report is submitted again.
C3_FailedSubmissionIsRetried ==
  (fx.post_result = "failed" /\ fx.attempt = 1)
    => (fx.posted = 1 /\ result[fx.by] = fx.report)

\* C3 (amended): when the submission of a completed report fails, it was the
\* report's only attempt, and the report is dropped without being submitted
\* again.
C3_FailedSubmissionIsDropped ==
  fx.post_result = "failed"
    => /\ fx.attempt = 1
       /\ fx.posted = 0
       /\ result[fx.by] = <<>>
       /\ posts[fx.by] = 0

C3_Witness ==
  /\ fx.post_result = "failed"
  /\ Status(fx.report) = "completed"
  /\ fx.by = "ws"

\* C4: whatever the interleaving of scheduled and requested scans, a report is
\* POSTed at most once: every POST issued is the first one of its report, and
\* when a POST has ended, accepted or not, the report is gone.
C4_AtMostOnePost ==
  /\ \A p \in Callers : posts[p] <= 1
  /\ \A p \in Procs : pc[p] \in SubmitPcs <=> posts[p] = 1
  /\ fx.posted = 1 => (posts[fx.by] = 1 /\ result[fx.by] = fx.report)
  /\ fx.post_result # "none" => (fx.posted = 0 /\ result[fx.by] = <<>>)

\* A scheduled and a requested report are in flight to the collector at once.
C4_Witness ==
  /\ pc["ws"] \in SubmitPcs /\ pc["sched"] \in SubmitPcs
  /\ posts["ws"] = 1 /\ posts["sched"] = 1

Gone == {"raised", "returned", "cancelled"}

\* C5: a failure local to one message or one scan never terminates the
\* agent: while the running flag is true the session loop is alive, and so is
\* the scheduler loop when scheduling is enabled.
C5_LoopsSurviveLocalFailures ==
  running => /\ pc["ws"] \notin Gone
             /\ enabled => pc["sched"] \notin Gone

\* The texts that decode to a JSON object whose type is neither
\* compliance_scan nor ping, or that has no type.
UnhandledTexts ==
  {t \in Texts :
     /\ json_loads(t).ok /\ json_loads(t).isdict
     /\ Get(json_loads(t).obj, "type", None) \notin {"compliance_scan", "ping"}}

\* What a step of the session that starts or continues no scan leaves behind.
SessionQuiet ==
  /\ ws = "open"
  /\ pc["ws"] = "receiving"
  /\ cur = "none"
  /\ request = NoRequest
  /\ scanner["ws"] = <<>> /\ result["ws"] = <<>> /\ posts["ws"] = 0
  /\ fx.probed = {} /\ fx.invoked = {} /\ fx.posted = 0 /\ fx.report = <<>>

\* C6: a message of an unknown type, or without a type, is ignored: the
\* session stays connected and ready for the next frame, nothing is sent, no
\* adapter is constructed or run, nothing is submitted.
C6_UnhandledIgnored ==
  fx.handled \in UnhandledTexts => (SessionQuiet /\ fx.pongs = 0)

C6_Witness == fx.handled = NoTypeText /\ pc["sched"] \in SubmitPcs

\* C7: every ping received on the connected channel produces exactly one
\* pong and no availability probe, no scan invocation and no submission.
C7_PingPong ==
  fx.handled = PingText => (fx.pongs = 1 /\ SessionQuiet)

C7_Witness == fx.handled = PingText /\ fx.pongs = 1

\* C8: an adapter whose availability probe reported false is never run: no
\* external scan command runs for a scanner whose probe reported false; the
\* agent's paths skip such an adapter without a report, and run_scan called
\* on it returns an error report with no results.
C8_UnavailableNeverInvoked ==
  /\ \A p \in Callers : pc[p] \in ToolPcs => ProbeOk(scanner[p])
  /\ fx.unavailable # {}
       => /\ fx.invoked = {}
          /\ fx.posted = 0
          /\ fx.by \in Procs => fx.report = <<>>
          /\ fx.by = "cli" => /\ Status(fx.report) = "error"
                              /\ fx.report.results = <<>>

\* Both adapters were found unavailable, by the agent and by run_scan itself.
C8_Witness ==
  /\ fx.unavailable # {}
  /\ fx.by \in {"ws", "cli"}

(***************************************************************************)
(* The parsers on their own: an output or a results document is drawn, and *)
(* the adapter's parser is applied to it.                                  *)
(***************************************************************************)
SeqsUpTo(S, n) == UNION {[1..k -> S] : k \in 0..n}

\* Rule references "<first>(.<group>)*": the first group of up to
\* MaxGroupLen digits, then up to MaxRest groups.
FirstGroups == SeqsUpTo(Digits, MaxGroupLen) \ {<<>>}

RestGroups == {<<"0">>, <<"1", "2">>}

RECURSIVE Dotted(_)
Dotted(groups) ==
  IF groups = <<>> THEN <<>>
  ELSE <<Dot>> \o Head(groups) \o Dotted(Tail(groups))

RuleRefs ==
  {first \o Dotted(rest) : first \in FirstGroups,
                           rest \in SeqsUpTo(RestGroups, MaxRest)}

\* References the patterns reject.
BadRefs == {<<"1", Dot>>, <<"x">>}

Tags == {"PASS", "WARN", "INFO", "NOTE", "FAIL", ""}

\* One-line outputs over every reference.
WideOutputs ==
  {<<Line("PASS", ref, "x")>> : ref \in RuleRefs}

\* Outputs of up to MaxLines lines over a few references.
FewLines ==
  {Line(tag, ref, "x") :
     tag \in Tags,
     ref \in {<<"1">>, <<"2", Dot, "1">>, <<"1", Dot, Dot, "2">>}}
  \cup {Line("PASS", <<"1", Dot, "1">>, "")}
  \cup {Line("WARN", ref, "x") : ref \in BadRefs}

DockerInputs == WideOutputs \cup SeqsUpTo(FewLines, MaxLines)

NativeResults ==
  {"pass", "fail", "error", "unknown", "notapplicable", "notchecked",
   "notselected", "informational", "fixed", "PASS", "Fail", "weird", "", None}

RuleSeverities == {None, "low", "medium", "high", "High", "unknown", "info"}

RuleLists ==
  {<<>>, <<Rule("r1", "low", "t1"), Rule("r1", "high", "t2")>>}
  \cup {<<Rule("r1", sev, "t1")>> : sev \in RuleSeverities}
  \cup {<<Rule("r1", "low", None)>>}

RuleResults ==
  {RuleResult(idref, "1.2", text) : idref \in {"r1", "r2"}, text \in NativeResults}
  \cup {RuleResult(idref, "1.1", text) : idref \in {"r1", "r2"}, text \in {"pass", None}}
  \cup {RuleResult(idref, "none", None) : idref \in {"r1", "r2"}}

OscapInputs ==
  {NoDoc, Doc(TRUE, FALSE, <<>>, <<>>)}
  \cup {Doc(TRUE, TRUE, rules, rrs) :
          rules \in RuleLists, rrs \in SeqsUpTo(RuleResults, MaxRuleResults)}

NotParsed == [done |-> FALSE, raised |-> FALSE, results |-> <<>>]

ParseInit ==
  /\ AgentInit
  /\ creds /\ enabled
  /\ pin \in {[tool |-> "docker-bench", output |-> o, doc |-> NoDoc] : o \in DockerInputs}
          \cup {[tool |-> "openscap", output |-> <<>>, doc |-> d] : d \in OscapInputs}
  /\ pout = NotParsed

\* DockerBenchScanner._parse_output applied to the output.
ParseDockerOutput ==
  /\ pin.tool = "docker-bench"
  /\ ~pout.done
  /\ pout' = [done |-> TRUE, raised |-> FALSE, results |-> parse_output(pin.output)]
  /\ UNCHANGED <<agentVars, pin>>

\* OpenSCAPScanner._parse_results_xml applied to the results document.
ParseResultsXml ==
  /\ pin.tool = "openscap"
  /\ ~pout.done
  /\ pout' = [done |-> TRUE, raised |-> parse_results_xml(pin.doc).raised,
              results |-> parse_results_xml(pin.doc).results]
  /\ UNCHANGED <<agentVars, pin>>

ParseNext == ParseDockerOutput \/ ParseResultsXml

ParseSpec == ParseInit /\ [][ParseNext]_vars

(***************************************************************************)
(* Properties of the parsers.                                              *)
(***************************************************************************)
CanonicalStatuses == {"pass", "fail", "skip", "notapplicable", "error"}

CanonicalSeverities == {"low", "medium", "high"}

\* C9: every Finding either parser emits has a canonical status and a
\* canonical severity.
C9_FindingsCanonical ==
  \A i \in 1..Len(pout.results) :
     /\ pout.results[i].status \in CanonicalStatuses
     /\ pout.results[i].severity \in CanonicalSeverities

\* The table of spec and claim, by one digit.
SeverityOfDigit(d) ==
  IF d \in {"1", "2", "5"} THEN "high"
  ELSE IF d \in {"3", "4", "6"} THEN "medium"
  ELSE IF d = "7" THEN "low"
  ELSE "medium"

\* The characters of a reference before its first dot.
FirstGroup(ref) ==
  IF \E k \in 1..Len(ref) : ref[k] = Dot
  THEN SubSeq(ref, 1, (CHOOSE k \in 1..Len(ref) :
                         ref[k] = Dot /\ \A j \in 1..(k - 1) : ref[j] # Dot) - 1)
  ELSE ref

DockerFindings ==
  IF pin.tool = "docker-bench" THEN pout.results ELSE <<>>

\* C10 (as claimed): the severity of a docker-bench Finding is decided by the
\* leading digit of its rule reference alone.
C10_SeverityByLeadingDigit ==
  \A i \in 1..Len(DockerFindings) :
     DockerFindings[i].severity = SeverityOfDigit(DockerFindings[i].rule_ref[1])

\* C10 (amended): the severity is decided by the first dot-separated group of
\* the reference: a group that is one digit gives that digit's severity, and
\* every group of two or more digits gives medium whatever its leading digit.
C10_SeverityByFirstGroup ==
  \A i \in 1..Len(DockerFindings) :
     LET group == FirstGroup(DockerFindings[i].rule_ref)
     IN DockerFindings[i].severity =
          IF Len(group) = 1 THEN SeverityOfDigit(group[1]) ELSE "medium"

\* A reference whose first group has two digits and begins with 1.
C10_Witness ==
  \E i \in 1..Len(DockerFindings) :
     /\ Len(FirstGroup(DockerFindings[i].rule_ref)) = 2
     /\ DockerFindings[i].rule_ref[1] = "1"
     /\ DockerFindings[i].severity = "medium"

\* The status the table of spec and claim gives a native tag.
StatusOfTag(tag) ==
  CASE tag = "PASS" -> "pass"
    [] tag = "WARN" -> "fail"
    [] tag = "INFO" -> "skip"
    [] tag = "NOTE" -> "notapplicable"
    [] OTHER -> "skip"

\* "[INFO] <number without dot> - text"
IsSectionHeader(line) ==
  /\ line.tag = "INFO"
  /\ IsDottedNumber(line.ref)
  /\ Dot \notin {line.ref[i] : i \in 1..Len(line.ref)}
  /\ line.title # ""

\* The lines "[tag] <dotted number> - text" with tag among tags that are not
\* section headers, in the order of the output, with the status of each.
CheckLines(output, tags) ==
  LET sel == SelectSeq(output, LAMBDA l : /\ l.tag \in tags
                                          /\ IsDottedNumber(l.ref)
                                          /\ l.title # ""
                                          /\ ~IsSectionHeader(l))
  IN [i \in 1..Len(sel) |->
        [rule_ref |-> sel[i].ref, status |-> StatusOfTag(sel[i].tag)]]

RefAndStatus(findings) ==
  [i \in 1..Len(findings) |->
     [rule_ref |-> findings[i].rule_ref, status |-> findings[i].status]]

DockerParsed == pin.tool = "docker-bench" /\ pout.done

\* C11 (as claimed): every check line, whatever its bracketed tag, gives one
\* Finding in the order of the output, with PASS, WARN, INFO, NOTE mapped to
\* pass, fail, skip, notapplicable and any other tag mapped to skip; section
\* headers give none.
C11_EveryTagMapped ==
  DockerParsed => RefAndStatus(pout.results) = CheckLines(pin.output, Tags \ {""})

\* C11 (amended): the check lines are those tagged PASS, WARN, INFO or NOTE,
\* mapped to pass, fail, skip, notapplicable in the order of the output; a
\* line with any other tag, like a section header, gives no Finding.
C11_KnownTagsMapped ==
  DockerParsed =>
    RefAndStatus(pout.results) = CheckLines(pin.output, {"PASS", "WARN", "INFO", "NOTE"})

\* A line tagged FAIL is dropped and the WARN line after it is a Finding.
C11_Witness ==
  /\ DockerParsed
  /\ Len(pin.output) = 2
  /\ pin.output[1].tag = "FAIL" /\ IsDottedNumber(pin.output[1].ref)
  /\ pin.output[2].tag = "WARN"
  /\ Len(pout.results) = 1
  /\ pout.results[1].status = "fail"

\* The status the table of spec and claim gives one rule-result: a missing or
\* empty result value is skip, any other value is looked up in lower case.
StatusOfRuleResult(rr) ==
  IF rr.ns = "none" \/ rr.text = None \/ rr.text = "" THEN "skip"
  ELSE IF Lower(rr.text) \in {"pass", "fixed"} THEN "pass"
  ELSE IF Lower(rr.text) \in {"fail", "error", "notapplicable"} THEN Lower(rr.text)
  ELSE "skip"

OscapParsed ==
  pin.tool = "openscap" /\ pout.done /\ pin.doc.exists /\ pin.doc.wellformed

\* C12: one Finding per rule-result element, in document order, whose status
\* is pass for pass / fixed, fail for fail, error for error, notapplicable for
\* notapplicable and skip for every other, missing or empty result value,
\* compared in lower case.
C12_StatusOfEveryRuleResult ==
  OscapParsed =>
    /\ Len(pout.results) = Len(pin.doc.rule_results)
    /\ \A i \in 1..Len(pout.results) :
          /\ pout.results[i].rule_ref = pin.doc.rule_results[i].idref
          /\ pout.results[i].status = StatusOfRuleResult(pin.doc.rule_results[i])

(***************************************************************************)
(* Properties of the orchestration.                                        *)
(***************************************************************************)
\* The positions of a caller inside run_openscap_compliance.
OscapPcs == {"run_openscap", "oscap_eval", "oscap_submit"}

\* C13: in a request with profile_type 'all', however the OpenSCAP part ends
\* (adapter unavailable, error report, timeout, exception, failed or accepted
\* submission), the session goes on to run_docker_bench_compliance; and an
\* adapter found unavailable is skipped with no report, no invocation and no
\* submission.
C13_AllRunsBothIndependently ==
  [][(request.profile_type = "all" /\ pc["ws"] \in OscapPcs) =>
       /\ pc'["ws"] \in OscapPcs \cup {"run_docker"}
       /\ request'.profile_type = "all"
       /\ (fx'.by = "ws" /\ fx'.unavailable # {}) =>
             (fx'.report = <<>> /\ fx'.invoked = {} /\ fx'.posted = 0)]_vars

\* The OpenSCAP report of an 'all' request was refused by the collector and
\* the docker-bench adapter is up next.
C13_Witness ==
  /\ request.profile_type = "all"
  /\ pc["ws"] = "run_docker"
  /\ fx.by = "ws"
  /\ fx.post_result = "failed"

\* C14: every step of a compliance_scan request in which run_scan returned a
\* ScanReport, completed or error, issues one POST of it (the session being
\* open).
C14_EveryReportSubmitted ==
  (/\ fx.by = "ws"
   /\ fx.report # <<>>
   /\ fx.post_result = "none"
   /\ session = "open") => fx.posted = 1

\* C15: with scheduled scanning disabled the scheduler has returned at once
\* and never probes, runs or submits anything, and its return does not end
\* the agent: while the flag is true the session loop is connecting, backing
\* off, receiving or serving a request.
C15_DisabledSchedulerDoesNothing ==
  ~enabled =>
    /\ pc["sched"] \in {"new", "returned"}
    /\ fx.by # "sched"
    /\ scanner["sched"] = <<>> /\ result["sched"] = <<>> /\ posts["sched"] = 0
    /\ cur # "sched"
    /\ (running /\ pc["ws"] # "raised") =>
          (startpc = "gather" /\ pc["ws"] \notin {"new", "returned", "cancelled"})

\* Scheduling is disabled and the session has just submitted the report of a
\* requested scan.
C15_Witness ==
  /\ ~enabled
  /\ pc["sched"] = "returned"
  /\ fx.by = "ws"
  /\ fx.posted = 1

(***************************************************************************)
(* Properties of the reports.                                              *)
(***************************************************************************)
\* C16: a report run_scan returns with status error has no results and has
\* an error message, whichever path made it; a report with status completed
\* has profile_name, profile_type, started_at and completed_at; there is no
\* other status.
C16_ReportShape ==
  fx.report # <<>> =>
    IF Status(fx.report) = "error"
    THEN /\ fx.report.results = <<>>
         /\ "error" \in DOMAIN fx.report
         /\ fx.report.error # ""
    ELSE /\ Status(fx.report) = "completed"
         /\ {"profile_name", "profile_type", "started_at", "completed_at",
             "results"} \subseteq DOMAIN fx.report

\* Parsing of the evaluator's results was aborted by an exception and the
\* session's run_scan returned the error report made of it.
C16_Witness ==
  /\ fx.by = "ws"
  /\ Status(fx.report) = "error"
  /\ fx.report.error = "AttributeError"

(***************************************************************************)
(* Properties of the shutdown.                                             *)
(***************************************************************************)
Stopped == startpc = "gather" /\ ~running

\* C17: stop() leaves the flag false and the channel not open; from then on
\* the session loop starts no connection attempt (it may still be in the one
\* that was in progress), it leaves the backoff and the receive loop only by
\* returning, and it does come to its end.
C17_StopEndsSessionLoop ==
  /\ [][Stopped' =>
          /\ ws' # "open"
          /\ pc'["ws"] = "connecting" => pc["ws"] = "connecting"
          /\ (Stopped /\ pc["ws"] \in {"backoff", "receiving"}
                /\ pc'["ws"] # pc["ws"]) => pc'["ws"] = "returned"]_vars
  /\ Stopped ~> pc["ws"] \in {"returned", "raised", "cancelled"}

\* The session loop was stopped on its way through a failed connection
\* attempt and its backoff, and has returned.
C17_Witness ==
  /\ Stopped
  /\ pc["ws"] = "returned"
  /\ lastDrop = "connect_failed"

\* C18: however `docker pull` ends (exit status zero or not, timeout, any
\* other failure), run_scan goes on to invoke `docker run`.
C18_PullFailureIgnored ==
  [][\A p \in Callers :
       (pc[p] = "docker_pull" /\ pc'[p] # "docker_pull") =>
          (pc'[p] = "docker_run" /\ fx'.invoked = {"docker run"})]_vars

\* C19: when the evaluator exited and its results document is missing or
\* not well-formed, the report run_scan returns is completed with no
\* results, and the agent submits it (the session being open) like any
\* completed report.
C19_UnparsedResultsStillCompleted ==
  fx.parsed \in {"missing", "malformed"} =>
    /\ Status(fx.report) = "completed"
    /\ fx.report.results = <<>>
    /\ (fx.by \in Procs /\ session = "open") =>
          /\ fx.posted = 1
          /\ pc[fx.by] = "oscap_submit"
          /\ result[fx.by] = fx.report

\* The session's evaluator left a document that is not well-formed, and the
\* report is on its way to the collector.
C19_Witness ==
  /\ fx.parsed = "malformed"
  /\ fx.by = "ws"
  /\ fx.posted = 1

(***************************************************************************)
(* OS detection and the profile table on their own: a host is drawn, the   *)
(* scanner is constructed on it and asked for its profiles.                *)
(*                                                                         *)
(* A host is [os_release : BOOLEAN (the identification file exists),       *)
(*            id, version_id : the values of its ID= and VERSION_ID= lines *)
(*                             without quotes; id is None without such a   *)
(*                             line; version_id is a character sequence,   *)
(*                             empty without such a line (absent and empty *)
(*                             are both false to get_available_profiles),  *)
(*            scap_content_path, files : the content directory found and   *)
(*                             the files in it].                           *)
(***************************************************************************)
V(major, minor) == major \o <<Dot>> \o minor

\* OpenSCAPScanner.PROFILE_MAP, keyed by <<family, version>>.
PROFILE_MAP ==
  LET entry(ds, names) == [datastream |-> ds, profiles |-> names] IN
  (<<"ubuntu", V(<<"2", "2">>, <<"0", "4">>)>> :>
      entry("ssg-ubuntu2204-ds.xml",
            {"level1_server", "level2_server", "level1_workstation"}))
  @@ (<<"ubuntu", V(<<"2", "0">>, <<"0", "4">>)>> :>
      entry("ssg-ubuntu2004-ds.xml", {"level1_server", "level2_server"}))
  @@ (<<"debian", <<"1", "1">>>> :>
      entry("ssg-debian11-ds.xml", {"level1_server", "level2_server"}))
  @@ (<<"debian", <<"1", "2">>>> :> entry("ssg-debian12-ds.xml", {"level1_server"}))
  @@ (<<"rhel", <<"8">>>> :>
      entry("ssg-rhel8-ds.xml", {"level1_server", "level2_server"}))
  @@ (<<"rhel", <<"9">>>> :> entry("ssg-rhel9-ds.xml", {"level1_server"}))
  @@ (<<"centos", <<"8">>>> :> entry("ssg-centos8-ds.xml", {"level1_server"}))
  @@ (<<"rocky", <<"8">>>> :> entry("ssg-rl8-ds.xml", {"level1_server"}))
  @@ (<<"rocky", <<"9">>>> :> entry("ssg-rl9-ds.xml", {"level1_server"}))

\* family_map of _detect_os, with its default.
family_map(os_id) ==
  CASE os_id \in {"ubuntu", "debian", "rhel", "centos", "rocky"} -> os_id
    [] os_id \in {"almalinux", "fedora"} -> "rhel"
    [] OTHER -> os_id

\* OpenSCAPScanner._detect_os: the version is the text of VERSION_ID before
\* its first dot.
detect_os(host) ==
  IF ~host.os_release
  THEN [family |-> None, version |-> <<>>, name |-> None]
  ELSE [family  |-> IF host.id = None THEN None ELSE family_map(Lower(host.id)),
        name    |-> IF host.id = None THEN None ELSE Lower(host.id),
        version |-> IF Dot \in {host.version_id[i] : i \in 1..Len(host.version_id)}
                    THEN Split(host.version_id)[1]
                    ELSE host.version_id]

\* OpenSCAPScanner.get_available_profiles, as the set of its descriptors.
get_available_profiles(host, os_info) ==
  IF os_info.family = None \/ os_info.version = <<>>
  THEN {}
  ELSE IF <<os_info.family, os_info.version>> \notin DOMAIN PROFILE_MAP
  THEN {}
  ELSE LET version_info == PROFILE_MAP[<<os_info.family, os_info.version>>] IN
       IF host.scap_content_path # None /\ version_info.datastream \in host.files
       THEN {[name |-> n,
              datastream |-> <<host.scap_content_path, version_info.datastream>>,
              os_family |-> os_info.family,
              os_version |-> os_info.version] : n \in version_info.profiles}
       ELSE {}

Datastreams == {PROFILE_MAP[k].datastream : k \in DOMAIN PROFILE_MAP}

OsIds ==
  {"ubuntu", "debian", "rhel", "centos", "rocky", "almalinux", "fedora", "arch", None}

VersionIds ==
  {k[2] : k \in DOMAIN PROFILE_MAP}
  \cup {<<"2", "2">>, V(<<"8">>, <<"6">>), V(<<"9">>, <<"3">>),
        V(<<"1", "2">>, <<"1">>), <<>>}

Hosts ==
  [os_release : BOOLEAN, id : OsIds, version_id : VersionIds,
   scap_content_path : {None, ContentDir},
   files : {Datastreams, {}, {"ssg-rhel8-ds.xml"}}]

NoProfiles == [done |-> FALSE, os_info |-> <<>>, profiles |-> {}]

ProfileInit ==
  /\ AgentInit
  /\ creds /\ enabled
  /\ pin \in Hosts
  /\ pout = NoProfiles

\* scanner = OpenSCAPScanner(); scanner.get_available_profiles()
GetAvailableProfiles ==
  /\ ~pout.done
  /\ pout' = [done |-> TRUE, os_info |-> detect_os(pin),
              profiles |-> get_available_profiles(pin, detect_os(pin))]
  /\ UNCHANGED <<agentVars, pin>>

ProfileNext == GetAvailableProfiles

ProfileSpec == ProfileInit /\ [][ProfileNext]_vars

\* C20: on a host whose identification file carries the family and the
\* version of a key of the table, and whose content directory has the
\* entry's content file, get_available_profiles gives one descriptor per
\* profile the entry declares.
C20_EveryEntryReachable ==
  (/\ pout.done
   /\ pin.os_release
   /\ <<pin.id, pin.version_id>> \in DOMAIN PROFILE_MAP
   /\ pin.scap_content_path # None
   /\ PROFILE_MAP[<<pin.id, pin.version_id>>].datastream \in pin.files)
  => {d.name : d \in pout.profiles} = PROFILE_MAP[<<pin.id, pin.version_id>>].profiles

\* C21: once stop() has set the flag to false, a scheduler that was sleeping
\* through its interval leaves the sleep only to end: it does not go on to
\* probe or run an adapter.
C21_StoppedSchedulerStartsNoScan ==
  [][(Stopped /\ pc["sched"] = "sleeping" /\ pc'["sched"] # "sleeping") =>
       pc'["sched"] \in {"returned", "cancelled"}]_vars

====
